---- MODULE Spec2Model ----
\* Model of the assetman core (src/core/src/lib.rs): the virtual path type,
\* the directory-watching AssetRoot with its path -> Condition cache, the
\* Tracker accumulator and the AssetLoadError wrapping used by the loaders.
\*
\* Strings of the program are sequences of one-character strings.
\* A renege::Condition is a natural number (its identity); a renege::Token is
\* the set of Conditions it depends on (plus the constant never-valid token).
\* A Condition is invalidated when it is dropped, which is how the event
\* callback's `paths.remove(&path)` invalidates: the removed value is a
\* temporary dropped at the end of that statement.
EXTENDS Integers, Sequences, FiniteSets, TLC

\* ---------------------------------------------------------------- bounds
MaxOps == 2        \* foreground operations started, over all threads
MaxEvents == 1     \* filesystem changes / watcher events produced

Threads == {"t1", "t2"}

\* ---------------------------------------------------------- path algebra
RECURSIVE RFind(_, _, _)
\* String::rfind(ch) on s[1..n]: the last index holding ch, 0 when none.
RFind(s, ch, n) ==
    IF n = 0 THEN 0
    ELSE IF s[n] = ch THEN n
    ELSE RFind(s, ch, n - 1)

RECURSIVE Split(_, _)
\* str::split('/'): the parts between separators, empty parts included.
Split(s, acc) ==
    IF s = <<>> THEN <<acc>>
    ELSE IF Head(s) = "/" THEN <<acc>> \o Split(Tail(s), <<>>)
    ELSE Split(Tail(s), Append(acc, Head(s)))

InnerRoot == <<>>

\* AssetInnerPath::parent; the result None is written NoPath.
NoPath == <<"?">>

\* parent cutting at the first separator (find) instead of the last (rfind).
Parent_FirstSlash(p) ==
    IF p = <<>> THEN NoPath
    ELSE IF \A k \in 1..Len(p) : p[k] # "/" THEN <<>>
    ELSE LET i == CHOOSE k \in 1..Len(p) :
                      p[k] = "/" /\ \A j \in 1..(k - 1) : p[j] # "/"
         IN  SubSeq(p, 1, i - 1)

Parent(p) ==
    IF p = <<>> THEN NoPath
    ELSE LET i == RFind(p, "/", Len(p))
         IN  IF i = 0 THEN InnerRoot ELSE SubSeq(p, 1, i - 1)

\* The loop body with `..` not clamped at the root: it is kept as a segment
\* when there is nothing left to remove.
RelStep_EscapeAtRoot(res, part) ==
    IF part = <<".">> THEN res
    ELSE IF part = <<".", ".">> THEN
        LET pos == RFind(res, "/", Len(res))
        IN  IF pos # 0 THEN SubSeq(res, 1, pos - 1)
            ELSE IF res # <<>> THEN <<>>
            ELSE part
    ELSE IF part = <<"~">> THEN <<>>
    ELSE IF res # <<>> THEN res \o <<"/">> \o part
    ELSE part

\* The loop body with `..` clearing the whole path, as `~` does.
RelStep_UpClears(res, part) ==
    IF part = <<".">> THEN res
    ELSE IF part = <<".", ".">> THEN <<>>
    ELSE IF part = <<"~">> THEN <<>>
    ELSE IF res # <<>> THEN res \o <<"/">> \o part
    ELSE part

\* The loop body without the `~` arm: `~` is appended like any other part.
RelStep_TildeLiteral(res, part) ==
    IF part = <<".">> THEN res
    ELSE IF part = <<".", ".">> THEN
        LET pos == RFind(res, "/", Len(res))
        IN  IF pos # 0 THEN SubSeq(res, 1, pos - 1) ELSE <<>>
    ELSE IF res # <<>> THEN res \o <<"/">> \o part
    ELSE part

\* The loop body without the `.` arm: `.` is appended like any other part.
RelStep_DotLiteral(res, part) ==
    IF part = <<".", ".">> THEN
        LET pos == RFind(res, "/", Len(res))
        IN  IF pos # 0 THEN SubSeq(res, 1, pos - 1) ELSE <<>>
    ELSE IF part = <<"~">> THEN <<>>
    ELSE IF res # <<>> THEN res \o <<"/">> \o part
    ELSE part

\* One iteration of the loop of AssetInnerPath::relative.
RelStep(res, part) ==
    IF part = <<".">> THEN res
    ELSE IF part = <<".", ".">> THEN
        LET pos == RFind(res, "/", Len(res))
        IN  IF pos # 0 THEN SubSeq(res, 1, pos - 1) ELSE <<>>
    ELSE IF part = <<"~">> THEN <<>>
    ELSE IF res # <<>> THEN res \o <<"/">> \o part
    ELSE part

RECURSIVE RelFold(_, _)
RelFold(res, parts) ==
    IF parts = <<>> THEN res
    ELSE RelFold(RelStep(res, Head(parts)), Tail(parts))

\* AssetInnerPath::relative.
Relative(p, spec) == RelFold(p, Split(spec, <<>>))

\* The canonical base directory of the root and PathBuf::join on it: an
\* absolute argument replaces the base, an empty one leaves it.
Base == <<"/", "r">>
Join(base, rel) ==
    IF rel = <<>> THEN base
    ELSE IF Head(rel) = "/" THEN rel
    ELSE base \o <<"/">> \o rel

\* The assets of the model: the directory "a" and the file "a/b" in it.
DirAsset == Relative(InnerRoot, <<"a">>)
FileAsset == Relative(DirAsset, <<"b">>)
Assets == {DirAsset, FileAsset}
RealPaths == {Join(Base, a) : a \in Assets}

\* -------------------------------------------------------- AssetPath values
\* The path specs handed to relative: every string of at most MaxSpecLen
\* characters over a letter, `.`, `~` and the separator, and a few longer
\* ones. Inner paths longer than MaxPathLen are not built.
MaxSpecLen == 2
MaxPathLen == 5
Chars == {"a", ".", "~", "/"}

RECURSIVE Strings(_)
Strings(n) ==
    IF n = 0 THEN {<<>>}
    ELSE LET shorter == Strings(n - 1)
         IN  shorter \cup {Append(s, ch) : s \in shorter, ch \in Chars}
LongSpecs ==
    {<<"~", "/", "a">>, <<"a", ".", "a">>, <<"a", "/", "/", "a">>,
     <<".", ".", "/", "a">>, <<"a", "/", ".", ".">>, <<"/", "a", "/">>,
     <<"a", "/", "a", "/", "~", "/", "a">>}
Specs == Strings(MaxSpecLen) \cup LongSpecs

\* Two AssetRoot instances, made by two calls of new_root_fs on the same
\* directory: an Arc<AssetRoot> is its address and the base it canonicalized.
FirstRoot == [addr |-> 1, dir |-> Base]
SecondRoot == [addr |-> 2, dir |-> Base]
Roots == {FirstRoot, SecondRoot}

\* An AssetPath is its root and its inner path; new_root_fs returns the root
\* path of the instance it made.
RootPath(r) == [root |-> r, inner |-> InnerRoot]

\* Equality derived from the fields: the roots compared by content.
PathEq_ByContent(p, q) == p.root.dir = q.root.dir /\ p.inner = q.inner

\* impl PartialEq for AssetPath: std::ptr::eq on the roots, == on the inners.
PathEq(p, q) == p.root.addr = q.root.addr /\ p.inner = q.inner

\* The path open_file hands to the file system: self.path.join(&path.0).
FullPath(p) == Join(p.root.dir, p.inner)

\* The extension taken from the last segment only, as Path::extension does.
Extension_OfLastSegment(i) ==
    LET seg == SubSeq(i, RFind(i, "/", Len(i)) + 1, Len(i))
        pos == RFind(seg, ".", Len(seg))
    IN  IF pos # 0 THEN SubSeq(seg, pos + 1, Len(seg)) ELSE <<"?">>

\* AssetInnerPath::extension; the result None is written NoExt.
NoExt == <<"?">>
Extension(i) ==
    LET pos == RFind(i, ".", Len(i))
    IN  IF pos # 0 THEN SubSeq(i, pos + 1, Len(i)) ELSE NoExt

\* The record of a method call on a path value: the value p held after the
\* call, the method, its argument, the value it was called on, the inner
\* path it returned (NoPath, NoExt for None), and for == the other operand
\* and the answer.
Called(p, o, a, from, res) ==
    [p |-> p, op |-> o, arg |-> a, from |-> from, res |-> res,
     other |-> from, same |-> TRUE]

\* A path value nothing was called on yet.
NoCall(p) == Called(p, "none", <<>>, p, p.inner)

\* ----------------------------------------------------------------- tokens
\* renege::Token::always / Token::never, the token of a Condition, `&`.
Always == [never |-> FALSE, deps |-> {}]
Never == [never |-> TRUE, deps |-> {}]
CondToken(c) == [never |-> FALSE, deps |-> {c}]
TokenAnd(x, y) == [never |-> x.never \/ y.never, deps |-> x.deps \cup y.deps]

\* ----------------------------------------------------------------- errors
\* An error is the chain of its causes, outermost first. An AssetLoadError
\* is a link tagged with its asset; every other error is an untagged link.
NoAsset == <<"-">>
Leaf(kind) == <<[asset |-> NoAsset, what |-> kind]>>
AssetLoadError(asset, inner) ==
    <<[asset |-> asset, what |-> "AssetLoadError"]>> \o inner

Ok(v) == [ok |-> TRUE, val |-> v, err |-> <<>>]
Err(e) == [ok |-> FALSE, val |-> "none", err |-> e]
NoResult == [ok |-> TRUE, val |-> "none", err |-> <<>>]

\* with_asset that replaces the cause instead of chaining it.
WithAsset_DropCause(asset, inner) ==
    IF inner.ok THEN inner ELSE Err(AssetLoadError(asset, Leaf("failed")))

\* with_asset: tags the error of the inner computation with the asset.
WithAsset(asset, inner) ==
    IF inner.ok THEN inner ELSE Err(AssetLoadError(asset, inner.err))

\* ------------------------------------------------------------ file system
Kinds == {"file", "dir", "missing", "denied"}

\* std::fs::File::open on an entry of the given kind (a directory opens).
FileOpen(kind) ==
    IF kind = "missing" THEN Err(Leaf("NotFound"))
    ELSE IF kind = "denied" THEN Err(Leaf("PermissionDenied"))
    ELSE Ok("file")

\* std::fs::read_dir and the collection of the entries' names.
ReadDir(kind) ==
    IF kind = "missing" THEN Err(Leaf("NotFound"))
    ELSE IF kind = "denied" THEN Err(Leaf("PermissionDenied"))
    ELSE IF kind = "file" THEN Err(Leaf("NotADirectory"))
    ELSE Ok("children")

\* read_to_end / read_to_string on a handle opened on an entry of that kind.
ReadAll(kind) ==
    IF kind = "dir" THEN Err(Leaf("IsADirectory")) ELSE Ok("bytes")

\* ------------------------------------------------------------------ state
VARIABLES
    dirExists,      \* environment: the directory given to new_root_fs exists
    canWatch,       \* environment: notify can create and start a watcher
    root,           \* "unbuilt", "watched", "degraded" or "panicked"
    fs,             \* real path -> kind of the entry on disk
    queue,          \* results notify has still to hand to the callback
    nEvents,        \* changes made to the disk so far
    paths,          \* AssetRootWatcher::paths: real path -> Condition, 0 vacant
    condPath,       \* Condition -> the real path it was created for
    invalidated,    \* the Conditions that have been invalidated
    removedByEvent, \* the Conditions the callback removed from paths
    lock,           \* holder of the Mutex around paths: "free", thread, "watcher"
    poisoned,       \* the Mutex is poisoned
    wpc,            \* position of the event callback
    wCur,           \* the paths of the event it still has to treat
    wTemp,          \* the value `paths.remove` returned, 0 for None
    pc,             \* position of each foreground thread in its call
    op,             \* the operation the thread runs
    path,           \* the asset (inner path) the operation is called on
    held,           \* the kind of entry behind the File a loader holds open
    loaded,         \* Gltf::buffer: what its call of load_bytes returned
    ioCount,        \* open / read_dir calls the operation has made
    tracker,        \* the thread's Tracker (a Cell holding one Token)
    initTok,        \* the Token the Tracker was created with
    registered,     \* the Conditions whose Tokens were composed into it
    bufferCache,    \* Gltf::buffer_cache[0]: "uninit", "bytes" or "empty"
    nOps,           \* operations started so far
    ret,            \* the call that returned in the last step, if any
    alg             \* an AssetPath value and the last method called on it

envVars == <<dirExists, canWatch, root, fs, queue, nEvents>>
cacheVars == <<paths, condPath, invalidated, removedByEvent, lock, poisoned>>
watcherVars == <<wpc, wCur, wTemp>>
threadVars == <<pc, op, path, held, loaded, ioCount, tracker, initTok,
                registered, bufferCache, nOps>>
vars == <<envVars, cacheVars, watcherVars, threadVars, ret, alg>>

\* A with_asset call: its asset, the outcome of its closure, its result.
NoWith == [asset |-> NoAsset, inner |-> NoResult, out |-> NoResult]

\* No call returned in the last step.
NoRet == [thread |-> "none", op |-> "none", path |-> InnerRoot, top |-> InnerRoot,
          result |-> NoResult, saw |-> "none", ioCount |-> 0, with |-> NoWith]

IsValid(tok) == ~tok.never /\ tok.deps \cap invalidated = {}
Live(c) == c \in 1..Len(condPath) /\ c \notin invalidated

Init ==
    /\ dirExists \in BOOLEAN
    /\ canWatch \in BOOLEAN
    /\ root = "unbuilt"
    /\ fs = [p \in RealPaths |->
                IF p = Join(Base, DirAsset) THEN "dir" ELSE "file"]
    /\ queue = <<>>
    /\ nEvents = 0
    /\ paths = [p \in RealPaths |-> 0]
    /\ condPath = <<>>
    /\ invalidated = {}
    /\ removedByEvent = {}
    /\ lock = "free"
    /\ poisoned = FALSE
    /\ wpc = "idle"
    /\ wCur = <<>>
    /\ wTemp = 0
    /\ pc = [t \in Threads |-> "idle"]
    /\ op = [t \in Threads |-> "none"]
    /\ path = [t \in Threads |-> InnerRoot]
    /\ held = [t \in Threads |-> "none"]
    /\ loaded = [t \in Threads |-> NoResult]
    /\ ioCount = [t \in Threads |-> 0]
    /\ initTok \in {[t \in Threads |-> tok] : tok \in {Always, Never}}
    /\ tracker = initTok
    /\ registered = [t \in Threads |-> {}]
    /\ bufferCache = "uninit"
    /\ nOps = 0
    /\ ret = NoRet
    /\ alg = NoCall(RootPath(FirstRoot))

\* ------------------------------------------------------- root construction
\* AssetRoot::new unwrapping the watcher as it unwraps the canonical path.
RootNew_WatcherUnwrap(exists, watch) ==
    IF ~exists \/ ~watch THEN "panicked" ELSE "watched"

\* AssetRoot::new: canonicalize().unwrap(), then the watcher or None.
RootNew(exists, watch) ==
    IF ~exists THEN "panicked"
    ELSE IF watch THEN "watched"
    ELSE "degraded"

\* AssetPath::new_root_fs.
NewRootFs ==
    /\ root = "unbuilt"
    /\ root' = RootNew(dirExists, canWatch)
    /\ ret' = NoRet /\ UNCHANGED alg
    /\ UNCHANGED <<dirExists, canWatch, fs, queue, nEvents>>
    /\ UNCHANGED <<cacheVars, watcherVars, threadVars>>

Built == root \in {"watched", "degraded"}

\* ------------------------------------------------------------ environment
\* What notify hands to the callback for a change naming the given paths;
\* without a watcher nothing is delivered.
Deliver(q, ev) == IF root = "watched" THEN Append(q, ev) ELSE q

\* The entry at real path p is created, removed, chmod-ed, replaced or
\* (k = fs[p]) has its contents modified.
FsChange(p, k) ==
    /\ Built
    /\ nEvents < MaxEvents
    /\ fs' = [fs EXCEPT ![p] = k]
    /\ queue' = Deliver(queue, [ok |-> TRUE, paths |-> <<p>>])
    /\ nEvents' = nEvents + 1
    /\ ret' = NoRet /\ UNCHANGED alg
    /\ UNCHANGED <<dirExists, canWatch, root>>
    /\ UNCHANGED <<cacheVars, watcherVars, threadVars>>

\* The entry at p is renamed to q: one event naming both paths.
FsRename(p, q) ==
    /\ Built
    /\ nEvents < MaxEvents
    /\ p # q
    /\ fs[p] # "missing"
    /\ fs' = [fs EXCEPT ![p] = "missing", ![q] = fs[p]]
    /\ queue' = Deliver(queue, [ok |-> TRUE, paths |-> <<p, q>>])
    /\ nEvents' = nEvents + 1
    /\ ret' = NoRet /\ UNCHANGED alg
    /\ UNCHANGED <<dirExists, canWatch, root>>
    /\ UNCHANGED <<cacheVars, watcherVars, threadVars>>

\* notify reports an error instead of an event.
WatchError ==
    /\ root = "watched"
    /\ nEvents < MaxEvents
    /\ queue' = Append(queue, [ok |-> FALSE, paths |-> <<>>])
    /\ nEvents' = nEvents + 1
    /\ ret' = NoRet /\ UNCHANGED alg
    /\ UNCHANGED <<dirExists, canWatch, root, fs>>
    /\ UNCHANGED <<cacheVars, watcherVars, threadVars>>

\* ------------------------------------------------------- foreground reads
CoreOps == {"open_file", "get_children", "track"}
LoadOps == {"load_bytes", "load_shader", "buffer"}

\* A lock that excludes nobody.
CanLock_NoMutex(holder) == TRUE

\* Mutex::lock returns once no other holder has the guard.
CanLock(holder) == holder = "free"

\* The MutexGuard kept alive after the block: the holder stays the holder.
Unlocked_GuardKept(holder) == holder

\* The MutexGuard is a local of the `if let` block and is dropped at its
\* closing brace, which unlocks the Mutex.
Unlocked(holder) == "free"

\* A Condition that takes the identity of the one created last.
NewCondition_Recycled(conds) == IF conds = <<>> THEN 1 ELSE Len(conds)

\* renege::Condition::new(): a Condition no Token was minted from yet.
NewCondition(conds) == Len(conds) + 1

\* A lookup (HashMap::get) in place of the entry: nothing is inserted.
EntryCond_LookupOnly(cache, full, fresh) == cache[full]

\* HashMap::entry on paths: the Condition of an occupied entry, or the
\* fresh one inserted into a vacant entry.
EntryCond(cache, full, fresh) ==
    IF cache[full] # 0 THEN cache[full] ELSE fresh

\* tracker.set(token): the Token replaces what the tracker held.
TrackerSet_Overwrite(cur, token) == token

\* tracker.set that starts over from the new Token when the old one is dead.
TrackerSet_RestartInvalid(cur, token) ==
    IF IsValid(cur) THEN TokenAnd(cur, token) ELSE token

\* tracker.set(tracker.get() & token)
TrackerSet(cur, token) == TokenAnd(cur, token)

\* The IO call an operation makes on an entry of the given kind.
IoCall(o, kind) == IF o = "get_children" THEN ReadDir(kind) ELSE FileOpen(kind)

\* The error tagged with the root path instead of the asset.
TagIoError_RootAsset(asset, res) ==
    IF res.ok THEN res ELSE Err(AssetLoadError(InnerRoot, res.err))

\* An Err of AssetRoot::{open_file, get_children} as AssetPath::open_file and
\* AssetPath::get_children return it.
TagIoError(asset, res) ==
    IF res.ok THEN res ELSE Err(AssetLoadError(asset, res.err))

\* Where an operation continues once the AssetRoot call returned Ok.
AfterRoot(o) == IF o \in CoreOps THEN "return" ELSE "read"

\* Where it continues once that call returned Err.
AfterErr(o) == IF o = "buffer" THEN "cell" ELSE "return"

\* The glTF asset "a/g" whose buffer 0 has the uri "b".
GltfAsset == Relative(DirAsset, <<"g">>)
BufferUri == <<"b">>

\* The asset the caller named: the glTF for Gltf::buffer.
TopAsset(o, a) == IF o = "buffer" THEN GltfAsset ELSE a

\* The call of thread t returns res to its caller.
Return(t, o, a, res, saw, count, w) ==
    /\ ret' = [thread |-> t, op |-> o, path |-> a, top |-> TopAsset(o, a),
               result |-> res, saw |-> saw, ioCount |-> count, with |-> w]
    /\ UNCHANGED alg
    /\ ioCount' = [ioCount EXCEPT ![t] = 0]
    /\ pc' = [pc EXCEPT ![t] = "idle"]
    /\ op' = [op EXCEPT ![t] = "none"]
    /\ path' = [path EXCEPT ![t] = InnerRoot]
    /\ held' = [held EXCEPT ![t] = "none"]
    /\ loaded' = [loaded EXCEPT ![t] = NoResult]

\* The call of thread t goes on at position next.
Goto(t, next) ==
    /\ ret' = NoRet /\ UNCHANGED alg
    /\ pc' = [pc EXCEPT ![t] = next]
    /\ UNCHANGED <<op, path>>

\* A thread calls open_file, get_children or track on an asset; track on a
\* root without watcher returns at once.
Start(t, o, a) ==
    /\ Built
    /\ pc[t] = "idle"
    /\ nOps < MaxOps
    /\ o \in CoreOps
    /\ nOps' = nOps + 1
    /\ IF o = "track" /\ root # "watched"
       THEN Return(t, o, a, Ok("unit"), "none", 0, NoWith)
       ELSE /\ ret' = NoRet /\ UNCHANGED alg
            /\ pc' = [pc EXCEPT ![t] = IF o = "track" THEN "lock" ELSE "io"]
            /\ op' = [op EXCEPT ![t] = o]
            /\ path' = [path EXCEPT ![t] = a]
            /\ UNCHANGED <<held, loaded, ioCount>>
    /\ UNCHANGED <<tracker, initTok, registered, bufferCache>>
    /\ UNCHANGED <<envVars, cacheVars, watcherVars>>

\* What the operation returns once its Token is composed.
OkValue(o) ==
    IF o = "get_children" THEN Ok("children")
    ELSE IF o = "track" THEN Ok("unit")
    ELSE Ok("file")

\* File::open / read_dir on the joined path; an Err returns at once, and so
\* does an Ok on a root without watcher.
Io(t) ==
    /\ pc[t] = "io"
    /\ LET kind == fs[Join(Base, path[t])]
           res == TagIoError(path[t], IoCall(op[t], kind))
           next == IF ~res.ok THEN AfterErr(op[t])
                   ELSE IF root = "watched" THEN "lock"
                   ELSE AfterRoot(op[t])
       IN  IF next = "return"
           THEN Return(t, op[t], path[t], res, kind, ioCount[t] + 1, NoWith)
           ELSE /\ Goto(t, next)
                /\ ioCount' = [ioCount EXCEPT ![t] = @ + 1]
                /\ held' = [held EXCEPT ![t] =
                        IF op[t] \in LoadOps /\ res.ok THEN kind ELSE "none"]
                /\ loaded' = [loaded EXCEPT ![t] =
                        IF res.ok THEN NoResult ELSE res]
    /\ UNCHANGED <<tracker, initTok, registered, bufferCache, nOps>>
    /\ UNCHANGED <<envVars, cacheVars, watcherVars>>

\* watcher.paths.lock().unwrap() on a Mutex that is not poisoned.
Lock(t) ==
    /\ pc[t] = "lock"
    /\ CanLock(lock)
    /\ ~poisoned
    /\ lock' = t
    /\ Goto(t, "compose")
    /\ UNCHANGED <<paths, condPath, invalidated, removedByEvent, poisoned>>
    /\ UNCHANGED <<held, loaded, ioCount, tracker, initTok, registered, bufferCache, nOps>>
    /\ UNCHANGED <<envVars, watcherVars>>

\* The entry lookup-or-insert, the composition into the tracker and the
\* release of the guard at the end of the `if let` block.
Compose(t) ==
    /\ pc[t] = "compose"
    /\ LET full == Join(Base, path[t])
           fresh == NewCondition(condPath)
           c == EntryCond(paths, full, fresh)
       IN  /\ paths' = [paths EXCEPT ![full] = c]
           /\ condPath' = IF c = fresh THEN Append(condPath, full) ELSE condPath
           /\ tracker' = [tracker EXCEPT ![t] = TrackerSet(@, CondToken(c))]
           /\ registered' = [registered EXCEPT ![t] = @ \cup {c}]
    /\ lock' = Unlocked(t)
    /\ IF AfterRoot(op[t]) = "return"
       THEN Return(t, op[t], path[t], OkValue(op[t]), "none", ioCount[t], NoWith)
       ELSE /\ Goto(t, AfterRoot(op[t]))
            /\ UNCHANGED <<held, loaded, ioCount>>
    /\ UNCHANGED <<invalidated, removedByEvent, poisoned>>
    /\ UNCHANGED <<initTok, bufferCache, nOps>>
    /\ UNCHANGED <<envVars, watcherVars>>

\* ------------------------------------------------------ the event callback
\* A removed Condition that is kept alive (leaked) instead of dropped.
DropCondition_Leak(inv, c) == inv

\* Dropping the value `paths.remove` returned invalidates the Condition.
DropCondition(inv, c) == IF c = 0 THEN inv ELSE inv \cup {c}

\* A callback that treats only the first path of the event.
EventPaths_FirstOnly(ev) ==
    IF ev.paths = <<>> THEN <<>> ELSE <<Head(ev.paths)>>

\* `for path in event.paths`: the paths the loop of the callback treats.
EventPaths(ev) == ev.paths

\* notify calls the callback with Ok(event).
WatcherEvent ==
    /\ wpc = "idle"
    /\ queue # <<>>
    /\ Head(queue).ok
    /\ queue' = Tail(queue)
    /\ wCur' = EventPaths(Head(queue))
    /\ wpc' = "lock"
    /\ ret' = NoRet /\ UNCHANGED alg
    /\ UNCHANGED <<dirExists, canWatch, root, fs, nEvents, wTemp>>
    /\ UNCHANGED <<cacheVars, threadVars>>

\* notify calls the callback with Err: `if let Ok(event)` skips it.
WatcherError ==
    /\ wpc = "idle"
    /\ queue # <<>>
    /\ ~Head(queue).ok
    /\ queue' = Tail(queue)
    /\ ret' = NoRet /\ UNCHANGED alg
    /\ UNCHANGED <<dirExists, canWatch, root, fs, nEvents>>
    /\ UNCHANGED <<cacheVars, watcherVars, threadVars>>

\* paths.lock().unwrap() in the callback.
WatcherLock ==
    /\ wpc = "lock"
    /\ CanLock(lock)
    /\ ~poisoned
    /\ lock' = "watcher"
    /\ wpc' = "loop"
    /\ ret' = NoRet /\ UNCHANGED alg
    /\ UNCHANGED <<paths, condPath, invalidated, removedByEvent, poisoned>>
    /\ UNCHANGED <<wCur, wTemp>>
    /\ UNCHANGED <<envVars, threadVars>>

\* A removal that also clears the entries of the paths below p.
MapRemove_Subtree(cache, p) ==
    [q \in DOMAIN cache |->
        IF Len(p) <= Len(q) /\ SubSeq(q, 1, Len(p)) = p THEN 0 ELSE cache[q]]

\* HashMap::remove(&p): the map without the entry of the key p.
MapRemove(cache, p) == [cache EXCEPT ![p] = 0]

\* paths.remove(&path) for the next path of the event.
WatcherRemove ==
    /\ wpc = "loop"
    /\ wCur # <<>>
    /\ LET p == Head(wCur)
       IN  /\ wTemp' = paths[p]
           /\ paths' = MapRemove(paths, p)
           /\ removedByEvent' = removedByEvent \cup ({paths[p]} \ {0})
    /\ wpc' = "drop"
    /\ ret' = NoRet /\ UNCHANGED alg
    /\ UNCHANGED <<condPath, invalidated, lock, poisoned, wCur>>
    /\ UNCHANGED <<envVars, threadVars>>

\* The end of that statement: the removed Option<Condition> is dropped.
WatcherDrop ==
    /\ wpc = "drop"
    /\ invalidated' = DropCondition(invalidated, wTemp)
    /\ wTemp' = 0
    /\ wCur' = Tail(wCur)
    /\ wpc' = "loop"
    /\ ret' = NoRet /\ UNCHANGED alg
    /\ UNCHANGED <<paths, condPath, removedByEvent, lock, poisoned>>
    /\ UNCHANGED <<envVars, threadVars>>

\* The end of the `if let` block: the guard is released.
WatcherUnlock ==
    /\ wpc = "loop"
    /\ wCur = <<>>
    /\ lock' = Unlocked("watcher")
    /\ wpc' = "idle"
    /\ ret' = NoRet /\ UNCHANGED alg
    /\ UNCHANGED <<paths, condPath, invalidated, removedByEvent, poisoned>>
    /\ UNCHANGED <<wCur, wTemp>>
    /\ UNCHANGED <<envVars, threadVars>>

Watcher ==
    \/ WatcherEvent
    \/ WatcherError
    \/ WatcherLock
    \/ WatcherRemove
    \/ WatcherDrop
    \/ WatcherUnlock

Env ==
    \/ \E p \in RealPaths, k \in Kinds : FsChange(p, k)
    \/ \E p, q \in RealPaths : FsRename(p, q)
    \/ WatchError

Read(t) ==
    \/ \E o \in CoreOps, a \in Assets : Start(t, o, a)
    \/ Io(t)
    \/ Lock(t)
    \/ Compose(t)

Next ==
    \/ NewRootFs
    \/ Env
    \/ Watcher
    \/ \E t \in Threads : Read(t)

Spec == Init /\ [][Next]_vars

\* --------------------------------------------------------------- loaders
\* A thread calls AssetPath::load_bytes or load_shader_wgpu on an asset.
StartLoad(t, o, a) ==
    /\ Built
    /\ pc[t] = "idle"
    /\ nOps < MaxOps
    /\ o \in {"load_bytes", "load_shader"}
    /\ nOps' = nOps + 1
    /\ ret' = NoRet /\ UNCHANGED alg
    /\ pc' = [pc EXCEPT ![t] = "io"]
    /\ op' = [op EXCEPT ![t] = o]
    /\ path' = [path EXCEPT ![t] = a]
    /\ UNCHANGED <<held, loaded, ioCount, tracker, initTok, registered, bufferCache>>
    /\ UNCHANGED <<envVars, cacheVars, watcherVars>>

\* Gltf::buffer(0) with a filled OnceCell: get_or_init returns its value.
BufferCached(t) ==
    /\ Built
    /\ pc[t] = "idle"
    /\ nOps < MaxOps
    /\ bufferCache # "uninit"
    /\ nOps' = nOps + 1
    /\ Return(t, "buffer", Relative(Parent(GltfAsset), BufferUri),
              Ok(bufferCache), "none", 0, NoWith)
    /\ UNCHANGED <<tracker, initTok, registered, bufferCache>>
    /\ UNCHANGED <<envVars, cacheVars, watcherVars>>

\* Gltf::buffer(0) with an empty OnceCell: the closure of get_or_init
\* calls load_bytes on dir.relative(uri).
BufferInit(t) ==
    /\ Built
    /\ pc[t] = "idle"
    /\ nOps < MaxOps
    /\ bufferCache = "uninit"
    /\ nOps' = nOps + 1
    /\ ret' = NoRet /\ UNCHANGED alg
    /\ pc' = [pc EXCEPT ![t] = "io"]
    /\ op' = [op EXCEPT ![t] = "buffer"]
    /\ path' = [path EXCEPT ![t] = Relative(Parent(GltfAsset), BufferUri)]
    /\ UNCHANGED <<held, loaded, ioCount, tracker, initTok, registered, bufferCache>>
    /\ UNCHANGED <<envVars, cacheVars, watcherVars>>

\* A with_asset call on a closure with the given outcome.
WithCall(asset, inner) ==
    [asset |-> asset, inner |-> inner, out |-> WithAsset(asset, inner)]

\* The closure given to with_asset in load_bytes and load_shader_wgpu reads
\* the whole file; load_bytes returns what with_asset makes of it, and so
\* does load_shader_wgpu when the read fails.
ReadFile(t) ==
    /\ pc[t] = "read"
    /\ LET w == WithCall(path[t], ReadAll(held[t]))
       IN  IF op[t] = "load_shader" /\ w.inner.ok
           THEN /\ Goto(t, "compile")
                /\ UNCHANGED <<held, loaded, ioCount>>
           ELSE IF op[t] = "buffer"
           THEN /\ Goto(t, "cell")
                /\ loaded' = [loaded EXCEPT ![t] = w.out]
                /\ held' = [held EXCEPT ![t] = "none"]
                /\ UNCHANGED ioCount
           ELSE Return(t, op[t], path[t], w.out, held[t], ioCount[t], w)
    /\ UNCHANGED <<tracker, initTok, registered, bufferCache, nOps>>
    /\ UNCHANGED <<envVars, cacheVars, watcherVars>>

\* The rest of the closure of load_shader_wgpu: the validation error scope
\* yields an error or nothing.
Compile(t, valid) ==
    /\ pc[t] = "compile"
    /\ LET w == WithCall(path[t], IF valid THEN Ok("module")
                                  ELSE Err(Leaf("ShaderCompileError")))
       IN  Return(t, op[t], path[t], w.out, held[t], ioCount[t], w)
    /\ UNCHANGED <<tracker, initTok, registered, bufferCache, nOps>>
    /\ UNCHANGED <<envVars, cacheVars, watcherVars>>

\* What the closure of get_or_init stores in the OnceCell.
CellValue(res) == IF res.ok THEN res.val ELSE "empty"

\* What Gltf::buffer returns after the closure ran.
BufferResult(res, cell) == IF res.ok THEN Ok(cell) ELSE Err(res.err)

\* The end of Gltf::buffer once load_bytes returned.
BufferStore(t) ==
    /\ pc[t] = "cell"
    /\ bufferCache' = CellValue(loaded[t])
    /\ Return(t, op[t], path[t],
              BufferResult(loaded[t], CellValue(loaded[t])), "none", ioCount[t],
              NoWith)
    /\ UNCHANGED <<tracker, initTok, registered, nOps>>
    /\ UNCHANGED <<envVars, cacheVars, watcherVars>>

\* The outcomes of the closures callers hand to with_asset.
InnerOutcomes ==
    {Ok("value"), Err(Leaf("Custom")),
     Err(AssetLoadError(FileAsset, Leaf("NotFound")))}

\* A caller runs with_asset on a closure with the given outcome.
CallWithAsset(t, a, inner) ==
    /\ Built
    /\ pc[t] = "idle"
    /\ nOps < MaxOps
    /\ nOps' = nOps + 1
    /\ Return(t, "with_asset", a, WithAsset(a, inner), "none", 0,
              WithCall(a, inner))
    /\ UNCHANGED <<tracker, initTok, registered, bufferCache>>
    /\ UNCHANGED <<envVars, cacheVars, watcherVars>>

Load(t) ==
    \/ \E o \in LoadOps, a \in Assets : StartLoad(t, o, a)
    \/ BufferCached(t)
    \/ BufferInit(t)
    \/ \E a \in Assets \cup {GltfAsset}, i \in InnerOutcomes : CallWithAsset(t, a, i)
    \/ Read(t)
    \/ ReadFile(t)
    \/ \E valid \in BOOLEAN : Compile(t, valid)
    \/ BufferStore(t)

\* One thread running the reads and the loaders on the root, with the disk
\* changing and the watcher running beside it.
NextLoad ==
    \/ NewRootFs
    \/ Env
    \/ Watcher
    \/ Load("t1")

SpecLoad == Init /\ [][NextLoad]_vars

\* -------------------------------------------------------- lock poisoning
\* A thread panics while it holds the guard: unwinding drops the guard, which
\* marks the Mutex poisoned and releases it.
PanicHoldingLock(t) ==
    /\ pc[t] = "compose"
    /\ lock = t
    /\ lock' = "free"
    /\ poisoned' = TRUE
    /\ Goto(t, "panicked")
    /\ UNCHANGED <<paths, condPath, invalidated, removedByEvent>>
    /\ UNCHANGED <<held, loaded, ioCount, tracker, initTok, registered, bufferCache, nOps>>
    /\ UNCHANGED <<envVars, watcherVars>>

\* lock().unwrap(): where its caller is next on a Mutex in that state.
LockUnwrap(isPoisoned, next) == IF isPoisoned THEN "poisonPanic" ELSE next

\* watcher.paths.lock().unwrap() on a poisoned Mutex, in a read.
LockPoisoned(t) ==
    /\ pc[t] = "lock"
    /\ CanLock(lock)
    /\ poisoned
    /\ Goto(t, LockUnwrap(poisoned, "compose"))
    /\ UNCHANGED <<held, loaded, ioCount, tracker, initTok, registered, bufferCache, nOps>>
    /\ UNCHANGED <<envVars, cacheVars, watcherVars>>

\* paths.lock().unwrap() on a poisoned Mutex, in the event callback.
WatcherLockPoisoned ==
    /\ wpc = "lock"
    /\ CanLock(lock)
    /\ poisoned
    /\ wpc' = LockUnwrap(poisoned, "loop")
    /\ ret' = NoRet /\ UNCHANGED alg
    /\ UNCHANGED <<wCur, wTemp>>
    /\ UNCHANGED <<envVars, cacheVars, threadVars>>

NextPoison ==
    \/ Next
    \/ \E t \in Threads : PanicHoldingLock(t)
    \/ \E t \in Threads : LockPoisoned(t)
    \/ WatcherLockPoisoned

SpecPoison == Init /\ [][NextPoison]_vars

\* One reader on the root, the disk changing and the callback.
NextWatched ==
    \/ NewRootFs
    \/ Env
    \/ Watcher
    \/ Read("t1")

\* Fair scheduling: the thread notify runs the callback on keeps running,
\* and a thread that holds the guard reaches the end of its block.
FairSpec ==
    /\ Init
    /\ [][NextWatched]_vars
    /\ WF_vars(Watcher)
    /\ WF_vars(Compose("t1"))

\* ------------------------------------------------------ AssetPath methods
\* The methods of AssetPath applied to one path value: they touch neither
\* the disk nor the cache.
PathFrame == UNCHANGED <<envVars, cacheVars, watcherVars, threadVars, ret>>

\* AssetPath::new_root_fs: the root path of a (new) AssetRoot instance.
PathNewRootFs(r) ==
    /\ alg' = Called(RootPath(r), "new_root_fs", <<>>, alg.p, InnerRoot)
    /\ PathFrame

\* AssetPath::relative.
PathRelative(spec) ==
    LET i == Relative(alg.p.inner, spec)
    IN  /\ Len(i) <= MaxPathLen
        /\ alg' = Called([alg.p EXCEPT !.inner = i], "relative", spec, alg.p, i)
        /\ PathFrame

\* AssetPath::parent: None leaves the caller with the value it had.
PathParent ==
    LET i == Parent(alg.p.inner)
    IN  /\ alg' = Called(IF i = NoPath THEN alg.p ELSE [alg.p EXCEPT !.inner = i],
                         "parent", <<>>, alg.p, i)
        /\ PathFrame

\* AssetPath::extension.
PathExtension ==
    /\ alg' = Called(alg.p, "extension", <<>>, alg.p, Extension(alg.p.inner))
    /\ PathFrame

\* The == of two AssetPath values.
PathCompare(q) ==
    /\ alg' = [Called(alg.p, "eq", <<>>, alg.p, alg.p.inner)
                  EXCEPT !.other = q, !.same = PathEq(alg.p, q)]
    /\ PathFrame

\* The values a path is compared with: the same and another inner path, on
\* either root.
Others == {[root |-> r, inner |-> i] : r \in Roots, i \in {alg.p.inner, alg.from.inner}}

NextPath ==
    \/ \E r \in Roots : PathNewRootFs(r)
    \/ \E spec \in Specs : PathRelative(spec)
    \/ PathParent
    \/ PathExtension
    \/ \E q \in Others : PathCompare(q)

InitPath == Init /\ dirExists /\ canWatch /\ initTok["t1"] = Always
SpecPath == InitPath /\ [][NextPath]_vars

\* ------------------------------------------------------------------ claims
\* An event naming real path p is waiting for the callback.
EventPending(p) ==
    \E i \in 1..Len(queue) :
        queue[i].ok /\ \E j \in 1..Len(queue[i].paths) : queue[i].paths[j] = p

\* Every Token minted from Condition c, alone or composed into a Tracker,
\* reports invalid.
TokensInvalid(c) ==
    /\ ~IsValid(CondToken(c))
    /\ \A t \in Threads : c \in registered[t] => ~IsValid(tracker[t])

\* C1 as stated: whenever an event has removed the cache entry of a path, the
\* removed Condition is already invalidated, so no Token minted from it
\* reports valid.
C1_InvalidatedBeforeRemoved ==
    \A c \in removedByEvent : TokensInvalid(c)

\* C1 amended: the callback removes the entry first and invalidates the
\* removed Condition next, by dropping it, while it still holds the lock; a
\* Condition removed by an event has all its Tokens invalid except during
\* that one step of the callback.
C1_RemovedThenInvalidatedUnderLock ==
    \A c \in removedByEvent :
        \/ TokensInvalid(c)
        \/ lock = "watcher" /\ wpc = "drop" /\ wTemp = c

C1_Witness ==
    \E c \in removedByEvent, t \in Threads :
        /\ c \in registered[t]
        /\ IsValid(initTok[t])
        /\ ~IsValid(tracker[t])
        /\ paths[condPath[c]] = 0
        /\ lock = "free"

\* C2: no two live (created, not invalidated) Conditions belong to the same
\* real path.
C2_OneLiveConditionPerPath ==
    \A c1, c2 \in 1..Len(condPath) :
        (Live(c1) /\ Live(c2) /\ condPath[c1] = condPath[c2]) => c1 = c2

C2_Witness ==
    \E c1, c2 \in 1..Len(condPath) :
        /\ c1 # c2
        /\ condPath[c1] = condPath[c2]
        /\ ~Live(c1)
        /\ Live(c2)
        /\ \E t1, t2 \in Threads :
            t1 # t2 /\ c1 \in registered[t1] /\ c2 \in registered[t2]

\* C3: once a Tracker holds the Token of the cached Condition of path p and an
\* event naming p is waiting, the Tracker's token eventually reports invalid.
C3_InvalidationLiveness ==
    \A t \in Threads, p \in RealPaths :
        (paths[p] # 0 /\ paths[p] \in registered[t] /\ EventPending(p))
            ~> ~IsValid(tracker[t])

C3_Witness ==
    \E t \in Threads, c \in removedByEvent :
        /\ ret.thread = "none"
        /\ c \in registered[t]
        /\ IsValid(initTok[t])
        /\ wpc = "idle"
        /\ queue = <<>>
        /\ ~IsValid(tracker[t])

\* C4: on a watched root a Tracker is valid exactly when its initial token is
\* valid and no Condition whose Token was composed into it is invalidated, and
\* every successful open_file, get_children or track has composed the Token
\* of a Condition of its path.
C4_TrackerIsConjunction ==
    root = "watched" =>
        /\ \A t \in Threads :
            IsValid(tracker[t]) <=>
                (IsValid(initTok[t]) /\ registered[t] \cap invalidated = {})
        /\ (ret.op \in CoreOps /\ ret.result.ok) =>
                \E c \in registered[ret.thread] :
                    condPath[c] = Join(Base, ret.path)

C4_Witness ==
    \E t \in Threads :
        /\ root = "watched"
        /\ ret.thread = t
        /\ ret.result.ok
        /\ Cardinality(registered[t]) = 2
        /\ IsValid(initTok[t])
        /\ registered[t] \cap invalidated # {}
        /\ registered[t] \ invalidated # {}

\* C5: when the watcher cannot be created the root is still built, without
\* watcher; no Condition is ever created on it, every Tracker keeps the token
\* it started with, and a read returns what its IO call found.
C5_DegradedKeepsTokens ==
    /\ (root # "unbuilt" /\ dirExists /\ ~canWatch) => root = "degraded"
    /\ root = "degraded" =>
        /\ condPath = <<>>
        /\ \A t \in Threads : tracker[t] = initTok[t]
        /\ ret.op \in {"open_file", "get_children"} =>
            /\ ret.ioCount = 1
            /\ ret.result.ok <=> IoCall(ret.op, ret.saw).ok
            /\ ret.result.ok => ret.result = OkValue(ret.op)
        /\ ret.op = "track" => ret.result = Ok("unit") /\ ret.ioCount = 0

C5_Witness ==
    /\ root = "degraded"
    /\ nEvents > 0
    /\ nOps > 1
    /\ ret.op = "open_file"
    /\ ret.result.ok
    /\ IsValid(tracker[ret.thread])

\* C6 as stated: constructing a root on a missing directory gives the caller
\* an error value; the process does not panic.
C6_MissingDirReportsError ==
    (root # "unbuilt" /\ ~dirExists) => root = "error"

\* C7 as stated: no read and no event callback panics on a poisoned lock.
C7_PoisonedLockReportsError ==
    /\ \A t \in Threads : pc[t] # "poisonPanic"
    /\ wpc # "poisonPanic"

\* The io::Error of open / read_dir on an entry of the given kind.
ExpectedIoError(o, kind) ==
    IF kind = "missing" THEN "NotFound"
    ELSE IF kind = "denied" THEN "PermissionDenied"
    ELSE IF kind = "file" /\ o = "get_children" THEN "NotADirectory"
    ELSE "none"

\* C8: an open_file or get_children whose IO call fails returns, after that
\* one IO call, an AssetLoadError whose asset is the path it was called on
\* and whose inner error is that IO error.
C8_IoErrorTaggedWithAsset ==
    ret.op \in {"open_file", "get_children"} =>
        /\ (ret.saw # "none" /\ ExpectedIoError(ret.op, ret.saw) # "none")
                => ~ret.result.ok
        /\ ~ret.result.ok =>
            /\ Len(ret.result.err) = 2
            /\ ret.result.err[1] = [asset |-> ret.path, what |-> "AssetLoadError"]
            /\ ret.result.err[2] =
                    [asset |-> NoAsset, what |-> ExpectedIoError(ret.op, ret.saw)]
            /\ ret.ioCount = 1

C8_Witness ==
    /\ ret.op = "get_children"
    /\ ret.path = FileAsset
    /\ ~ret.result.ok
    /\ ret.result.err[2].what = "PermissionDenied"

\* C9: with_asset returns an Ok of its closure unchanged and turns an Err(e)
\* into an error whose asset is the given one and whose cause is e; a failed
\* load_bytes or load_shader_wgpu names the asset it was asked to load.
C9_WithAssetTagsError ==
    /\ ret.with # NoWith =>
        /\ ret.with.inner.ok => ret.with.out = ret.with.inner
        /\ ~ret.with.inner.ok =>
            /\ ~ret.with.out.ok
            /\ Head(ret.with.out.err) =
                    [asset |-> ret.with.asset, what |-> "AssetLoadError"]
            /\ Tail(ret.with.out.err) = ret.with.inner.err
    /\ (ret.op \in {"load_bytes", "load_shader"} /\ ~ret.result.ok) =>
            Head(ret.result.err).asset = ret.top

C9_Witness ==
    /\ ret.op = "load_shader"
    /\ ~ret.result.ok
    /\ ret.with.inner = Err(Leaf("ShaderCompileError"))
    /\ ret.with.asset = FileAsset

\* C10 as stated: when Gltf::buffer fails because the buffer file cannot be
\* loaded, the error the caller receives names the glTF asset.
C10_ErrorNamesTopLevelAsset ==
    (ret.op = "buffer" /\ ~ret.result.ok) =>
        Head(ret.result.err).asset = GltfAsset

\* ------------------------------------------------- claims on path values
\* A literal segment: not empty, without separator, none of `.`, `..`, `~`.
IsLiteral(seg) ==
    /\ seg # <<>>
    /\ \A k \in 1..Len(seg) : seg[k] # "/"
    /\ seg \notin {<<".">>, <<".", ".">>, <<"~">>}

HasChar(s, ch) == \E k \in 1..Len(s) : s[k] = ch
IsPrefix(a, b) == Len(a) <= Len(b) /\ SubSeq(b, 1, Len(a)) = a

\* C11: whatever relative (with any spec string) and parent were called, the
\* inner path of the value never begins with the separator and has no `.` or
\* `..` segment, so the path handed to the file system is the root's
\* directory or a path below it.
C11_PathStaysInsideRoot ==
    LET i == alg.p.inner
        segs == Split(i, <<>>)
        dir == alg.p.root.dir
        real == FullPath(alg.p)
    IN  /\ i # <<>> => i[1] # "/"
        /\ \A k \in 1..Len(segs) : segs[k] \notin {<<".">>, <<".", ".">>}
        /\ IsPrefix(dir, real)
        /\ Len(real) > Len(dir) => real[Len(dir) + 1] = "/"

\* `../a` was resolved at the root: the `..` was clamped.
C11_Witness ==
    /\ alg.op = "relative"
    /\ alg.arg = <<".", ".", "/", "a">>
    /\ alg.from.inner = InnerRoot
    /\ alg.p.inner = <<"a">>

\* C12 as stated: the inner path of every value built from a root by
\* relative and parent is the empty string, or it neither starts nor ends
\* with the separator and all its segments are non-empty.
C12_InnerNormalForm ==
    LET i == alg.p.inner
        segs == Split(i, <<>>)
    IN  \/ i = InnerRoot
        \/ /\ i[1] # "/"
           /\ i[Len(i)] # "/"
           /\ \A k \in 1..Len(segs) : segs[k] # <<>>

\* C13: == on two path values answers true exactly when they have the same
\* root instance and equal inner paths; values of two instances made on the
\* same directory are unequal even with the same inner path.
C13_EqualIffSameRootAndInner ==
    alg.op = "eq" =>
        /\ alg.same <=> (alg.p.root = alg.other.root /\ alg.p.inner = alg.other.inner)
        /\ alg.p.root # alg.other.root => ~alg.same

C13_Witness ==
    /\ alg.op = "eq"
    /\ alg.p.root # alg.other.root
    /\ alg.p.root.dir = alg.other.root.dir
    /\ alg.p.inner = alg.other.inner
    /\ alg.p.inner # InnerRoot
    /\ ~alg.same

\* C14: when relative(a) with a literal segment a was called on P, calling
\* relative("..") on the result gives P back.
C14_UpUndoesLiteral ==
    (alg.op = "relative" /\ IsLiteral(alg.arg)) =>
        Relative(alg.res, <<".", ".">>) = alg.from.inner

C14_Witness ==
    /\ alg.op = "relative"
    /\ IsLiteral(alg.arg)
    /\ HasChar(alg.from.inner, "/")
    /\ alg.res # alg.from.inner
    /\ Relative(alg.res, <<".", ".">>) = alg.from.inner

\* C15: relative("~/" + x) on any P gives what relative(x) gives on the root
\* path, for the spec x of the call and for every call whose spec starts
\* with "~/"; relative("a/a/~/a") gives "a".
C15_TildeRestartsAtRoot ==
    alg.op = "relative" =>
        /\ Relative(alg.from.inner, <<"~", "/">> \o alg.arg)
              = Relative(InnerRoot, alg.arg)
        /\ IsPrefix(<<"~", "/">>, alg.arg) =>
              alg.res = Relative(InnerRoot, SubSeq(alg.arg, 3, Len(alg.arg)))
        /\ alg.arg = <<"a", "/", "a", "/", "~", "/", "a">> => alg.res = <<"a">>

C15_Witness ==
    /\ alg.op = "relative"
    /\ alg.arg = <<"~", "/", "a">>
    /\ HasChar(alg.from.inner, "/")
    /\ alg.res = <<"a">>

\* C16: parent answers None exactly on the root path, and the parent of
\* what relative(x) returned on P, x a literal segment, is P.
C16_ParentUndoesLiteral ==
    /\ alg.op = "parent" => (alg.res = NoPath <=> alg.from.inner = InnerRoot)
    /\ (alg.op = "relative" /\ IsLiteral(alg.arg)) =>
            Parent(alg.res) = alg.from.inner

C16_Witness ==
    /\ alg.op = "parent"
    /\ alg.res # NoPath
    /\ HasChar(alg.res, "/")
    /\ \E x \in Specs : IsLiteral(x) /\ Relative(alg.res, x) = alg.from.inner

\* C17: relative(".") returns the path it was called on, and every call of
\* relative, whatever the spec, returns a path.
C17_DotIsIdentity ==
    /\ Relative(alg.p.inner, <<".">>) = alg.p.inner
    /\ alg.op = "relative" =>
        /\ alg.res \in Seq(Chars)
        /\ alg.arg = <<".">> => alg.p = alg.from

C17_Witness ==
    /\ alg.op = "relative"
    /\ alg.arg = <<".">>
    /\ HasChar(alg.from.inner, "/")
    /\ alg.p = alg.from

C19_LockOnlyAroundMapOperation ==
    /\ \A t \in Threads : lock = t <=> pc[t] = "compose"
    /\ lock = "watcher" <=> wpc \in {"loop", "drop"}
    /\ \A t \in Threads : pc[t] = "io" => lock # t
    /\ (wpc = "lock" /\ \A t \in Threads : pc[t] \in {"idle", "io", "lock"})
            => ENABLED WatcherLock
    /\ lock # "free" => ENABLED (Watcher \/ \E t \in Threads : Compose(t))

\* The callback holds the lock while a thread is in its IO call.
C19_Witness ==
    /\ lock = "watcher"
    /\ wpc \in {"loop", "drop"}
    /\ \E t \in Threads : pc[t] = "io"

\* C20: track returns () without a call to the file system; on a watched
\* root the path has a Condition afterwards, in the cache, and its Token is
\* composed into the tracker, whatever is on disk at that path; and a
\* tracker is invalid once a Condition composed into it is invalidated.
C20_TrackRegistersWithoutIo ==
    /\ ret.op = "track" =>
        /\ ret.result = Ok("unit")
        /\ ret.ioCount = 0
        /\ root = "watched" =>
            \E c \in registered[ret.thread] \cap (1..Len(condPath)) :
                /\ condPath[c] = Join(Base, ret.path)
                /\ paths[Join(Base, ret.path)] = c
                /\ c \in tracker[ret.thread].deps
    /\ \A t \in Threads : \A c \in registered[t] \cap invalidated :
            ~IsValid(tracker[t])

\* track returned on a watched root for a path with nothing on disk.
C20_Witness ==
    /\ ret.op = "track"
    /\ root = "watched"
    /\ fs[Join(Base, ret.path)] = "missing"
    /\ ret.result.ok
    /\ registered[ret.thread] # {}

\* ------------------------------------------------ claims on the hot reload
\* C21: the Condition in the cache of a path is one created for that path,
\* not invalidated and not one an event removed; a read or track that
\* returned Ok on a watched root composed the Token of that Condition, which
\* is valid; and a Condition once invalidated or removed stays so in every
\* later step, whatever Condition the path gets next.
C21_RebornConditionIsFresh ==
    /\ [](\A p \in RealPaths : paths[p] # 0 =>
            /\ Live(paths[p])
            /\ condPath[paths[p]] = p
            /\ paths[p] \notin removedByEvent)
    /\ []((root = "watched" /\ ret.op \in CoreOps /\ ret.result.ok) =>
            /\ paths[Join(Base, ret.path)] \in registered[ret.thread]
            /\ IsValid(CondToken(paths[Join(Base, ret.path)])))
    /\ [][/\ invalidated \subseteq invalidated'
          /\ removedByEvent \subseteq removedByEvent'
          /\ \A c \in invalidated : ~(IsValid(CondToken(c)))']_vars

\* A call returned with the Token of the second Condition of its path, the
\* first one having died in an event.
C21_Witness ==
    \E c \in removedByEvent \cap invalidated :
        /\ ret.op \in CoreOps
        /\ ret.result.ok
        /\ condPath[c] = Join(Base, ret.path)
        /\ paths[condPath[c]] \notin {0, c}
        /\ paths[condPath[c]] \in registered[ret.thread]
        /\ IsValid(CondToken(paths[condPath[c]]))
        /\ ~IsValid(CondToken(c))

\* C22 as stated: on a watched root open_file and get_children compose the
\* Token of the path's Condition into the tracker before they open the file
\* or list the directory: a call that is at its IO step, or that returned
\* after it, has the Condition of its path registered.
C22_ComposeBeforeIo ==
    root = "watched" =>
        /\ \A t \in Threads :
            (pc[t] = "io" /\ op[t] \in {"open_file", "get_children"}) =>
                \E c \in registered[t] \cap (1..Len(condPath)) :
                    condPath[c] = Join(Base, path[t])
        /\ (ret.op \in {"open_file", "get_children"} /\ ret.ioCount > 0) =>
                \E c \in registered[ret.thread] \cap (1..Len(condPath)) :
                    condPath[c] = Join(Base, ret.path)

\* C23 as stated: when open_file or get_children returned Ok on a watched
\* root, what it found on disk is no longer there (the entry can no longer be
\* opened or listed), and the events of all changes have been processed,
\* the tracker of the call is invalid.
C23_NoLostInvalidation ==
    LET p == Join(Base, ret.path)
    IN  (/\ root = "watched"
         /\ ret.op \in {"open_file", "get_children"}
         /\ ret.result.ok
         /\ ~IoCall(ret.op, fs[p]).ok
         /\ ~EventPending(p)
         /\ wpc = "idle")
            => ~IsValid(tracker[ret.thread])

\* C24: a cache entry disappears only in the callback's remove of the path
\* the event names, and then no other entry changes; a Condition is
\* invalidated only as the one just removed for that path; the callback
\* changes no tracker and creates no Condition; the remove of a path without
\* entry and the delivery of an error leave the cache and every Condition as
\* they were.
C24_EventRemovesExactPath ==
    [][/\ \A q \in RealPaths :
            (paths[q] # 0 /\ paths'[q] = 0) =>
                /\ wpc = "loop" /\ wCur # <<>> /\ q = Head(wCur)
                /\ \A o \in RealPaths \ {q} : paths'[o] = paths[o]
       /\ invalidated' # invalidated =>
            /\ wpc = "drop"
            /\ invalidated' = invalidated \cup {wTemp}
            /\ condPath[wTemp] = Head(wCur)
       /\ wpc' # wpc => UNCHANGED <<tracker, registered, condPath>>
       /\ (wpc = "loop" /\ wpc' = "drop" /\ paths[Head(wCur)] = 0) =>
            paths' = paths /\ wTemp' = 0
       /\ (wpc = "drop" /\ wTemp = 0) => invalidated' = invalidated
       /\ (wpc = "idle" /\ queue # <<>> /\ ~Head(queue).ok /\ queue' = Tail(queue)) =>
            UNCHANGED <<paths, condPath, invalidated, wpc>>
      ]_vars

\* The event naming the file a/b was processed: its Condition is dead, the
\* Condition of the directory a is still cached and valid.
C24_Witness ==
    \E c \in removedByEvent \cap invalidated :
        /\ wpc = "idle"
        /\ queue = <<>>
        /\ condPath[c] = Join(Base, FileAsset)
        /\ paths[Join(Base, DirAsset)] # 0
        /\ IsValid(CondToken(paths[Join(Base, DirAsset)]))
        /\ \E t \in Threads : paths[Join(Base, DirAsset)] \in registered[t]
                                /\ IsValid(tracker[t])

\* C25: a tracker that reports invalid reports invalid after every later
\* step, whatever call is made with it; a tracker composed with the
\* always-valid Token is the tracker it was, and one composed with the
\* never-valid Token or with the Token of an invalidated Condition is invalid.
C25_TrackerStaysInvalid ==
    /\ [](\A t \in Threads :
            /\ TokenAnd(tracker[t], Always) = tracker[t]
            /\ ~IsValid(TokenAnd(tracker[t], Never))
            /\ \A c \in invalidated : ~IsValid(TokenAnd(tracker[t], CondToken(c))))
    /\ [][\A t \in Threads : ~IsValid(tracker[t]) => ~(IsValid(tracker[t]))']_vars

\* A tracker that was created valid and lost a Condition to an event was
\* used in a call that composed the Token of the path's new, valid
\* Condition: it still reports invalid.
C25_Witness ==
    \E t \in Threads, c \in removedByEvent \cap invalidated :
        /\ ret.thread = t
        /\ ret.result.ok
        /\ IsValid(initTok[t])
        /\ c \in registered[t]
        /\ \E d \in registered[t] : Live(d) /\ paths[Join(Base, ret.path)] = d
        /\ ~IsValid(tracker[t])

\* C26 as stated: every call of Gltf::buffer for the buffer returns what the
\* first call returned: the loaded bytes when the first load succeeded, an
\* error when it failed (the OnceCell then holds the empty box), and never
\* Ok with the empty substitute.
C26_BufferIdempotent ==
    ret.op = "buffer" =>
        /\ bufferCache = "empty" => ~ret.result.ok
        /\ bufferCache # "empty" => ret.result = Ok(bufferCache)

====
